---- MODULE Spec2Model ----
(***************************************************************************)
(* DecoderKVCache (deepsparse/transformers/utils/decoder_kv_cache.py):     *)
(* the per-session key/value cache of the text-generation pipeline.        *)
(*                                                                         *)
(* A cache array of shape [batch, heads, sequence, hidden] is modelled by  *)
(* its sequence axis alone: a sequence of entries, 0 for a blank (zero)    *)
(* entry and t >= 1 for the entry computed for the t-th processed token.   *)
(* Python's None is the empty tuple <<>>, a value x that is set is <<x>>.  *)
(* frame is the activation of an update that has started and not yet       *)
(* returned (None when no update is executing).                            *)
(***************************************************************************)
EXTENDS Integers, Sequences, FiniteSets, TLC

VARIABLES total_num_processed_tokens, use_deepsparse_cache, session_id,
          freeze_first_position, state, kv_cache, call, frame

vars == <<total_num_processed_tokens, use_deepsparse_cache, session_id,
          freeze_first_position, state, kv_cache, call, frame>>

\* ---- bounds of the model ----
MaxSetupCapacity == 3
MaxCapacity == 4
MaxInputIds == 3
MaxTokens == 6
MaxPrompt == 3

\* ---- values ----
None == <<>>
Some(x) == <<x>>
Val(opt) == opt[1]

Blank == 0
Names == {"key", "value"}
FirstKey == "key"
SessionIds == {"s1", "s2"}

Min(a, b) == IF a < b THEN a ELSE b
Max(a, b) == IF a > b THEN a ELSE b

\* numpy basic slicing a[:, :, start:, :] along the sequence axis, start >= 0
SliceFrom(cache_array, start) ==
    IF start >= Len(cache_array) THEN <<>>
    ELSE SubSeq(cache_array, start + 1, Len(cache_array))

\* numpy basic slicing a[:, :, :stop, :] along the sequence axis, stop >= 0
SliceTo(cache_array, stop) ==
    SubSeq(cache_array, 1, Min(stop, Len(cache_array)))

\* bool(x) of a field that is None, True or False
Truthy(opt) == opt = Some(TRUE)

\* int(bool)
BoolToInt(b) == IF b THEN 1 ELSE 0

\* [v] * k
Repeat(v, k) == [i \in 1..k |-> v]

NumReal(cache_array) ==
    Cardinality({i \in 1..Len(cache_array) : cache_array[i] # Blank})
NumBlank(cache_array) == Len(cache_array) - NumReal(cache_array)

\* ---- DecoderKVCache ----

cached_inputs == state

\* the capacity property of a configured session
capacity == Len(Val(cached_inputs)[FirstKey])

num_non_blank_entries == Min(capacity, Val(total_num_processed_tokens))

\* mutant: the entries are dropped at the tail instead of the front
remove_padded_entries_tail(cache_array, num_padded_entries_to_delete) ==
    SliceTo(cache_array, Len(cache_array) - num_padded_entries_to_delete)

remove_padded_entries(cache_array, num_padded_entries_to_delete) ==
    SliceFrom(cache_array, num_padded_entries_to_delete)

\* mutant: the newest entries are dropped, not the oldest
remove_non_padded_entries_newest(cache_array, num_non_padded_entries_to_delete, freeze) ==
    SliceTo(cache_array, Len(cache_array) - num_non_padded_entries_to_delete)

\* mutant: the first position is not kept
remove_non_padded_entries_no_bos(cache_array, num_non_padded_entries_to_delete, freeze) ==
    SliceFrom(cache_array, num_non_padded_entries_to_delete)

remove_non_padded_entries(cache_array, num_non_padded_entries_to_delete, freeze) ==
    LET new_cache_array ==
            SliceFrom(cache_array,
                      BoolToInt(Truthy(freeze)) + num_non_padded_entries_to_delete)
        bos_entries == SliceTo(cache_array, 1)
    IN  IF Truthy(freeze) THEN bos_entries \o new_cache_array
        ELSE new_cache_array

\* mutant: the counter counts calls, not tokens
update_total_calls(total, input_ids_len) == total + 1

\* line 105: self.total_num_processed_tokens += input_ids_len
update_total(total, input_ids_len) == total + input_ids_len

num_padded_entries(raw, total) ==
    Max(0, Len(raw[FirstKey]) - total)

num_padded_entries_to_delete(raw, total, input_ids_len) ==
    Min(num_padded_entries(raw, total), input_ids_len)

num_non_padded_entries_to_delete(raw, total, input_ids_len) ==
    Max(0, input_ids_len - num_padded_entries(raw, total))

\* the body of the loop of update, for one cache array; total is the counter
\* after the increment of line 105. As in line 132, remove_non_padded_entries
\* is handed num_entries_to_delete (input_ids_len), and
\* num_non_padded_entries_to_delete only decides whether it is called.
trim_array(cache_array, padded_to_delete, non_padded_to_delete, input_ids_len, freeze) ==
    LET a1 == IF padded_to_delete # 0
              THEN remove_padded_entries(cache_array, padded_to_delete)
              ELSE cache_array
    IN  IF non_padded_to_delete # 0
        THEN remove_non_padded_entries(a1, input_ids_len, freeze)
        ELSE a1

update_array(cache_array, raw, total, input_ids_len, freeze) ==
    trim_array(cache_array,
               num_padded_entries_to_delete(raw, total, input_ids_len),
               num_non_padded_entries_to_delete(raw, total, input_ids_len),
               input_ids_len, freeze)

update_state(raw, total, input_ids_len, freeze) ==
    [name \in DOMAIN raw |->
        update_array(raw[name], raw, total, input_ids_len, freeze)]

\* mutant: the padding is appended at the tail
insert_at_end(value, k, padding_value) == value \o Repeat(padding_value, k)

\* numpy.insert(value, indices, padding_value, axis) with indices = [0] * k
insert_at_zero(value, k, padding_value) == Repeat(padding_value, k) \o value

\* mutant: only the first array is padded
add_entries_first_only(st, num_indices, padding_value) ==
    [key \in DOMAIN st |->
        IF key = FirstKey
        THEN Repeat(padding_value, num_indices) \o st[key]
        ELSE st[key]]

add_entries(st, num_indices, padding_value) ==
    [key \in DOMAIN st |-> insert_at_zero(st[key], num_indices, padding_value)]

\* mutant: the comparison is the other way round
capacity_difference_swapped(cap, target) == target - cap

capacity_difference(cap, target) == cap - target

\* mutant: an id that is not set is handed out as it is
id_getter_unchecked(sid) == [raised |-> "no", ret |-> sid]

\* the id property: the exception it raises and the value it returns
id_getter(sid) ==
    IF sid = None THEN [raised |-> "ValueError", ret |-> None]
    ELSE [raised |-> "no", ret |-> sid]

\* mutant: generation also starts once the counter has passed the prompt
can_operate_at_least(tokens_len, total) ==
    total # None /\ tokens_len <= Val(total)

\* PrepareGeneration.can_operate: len(tokens) == kv_cache.total_num_processed_tokens
\* (an int never equals None)
can_operate(tokens_len, total) == Some(tokens_len) = total

\* ---- the caller's inputs ----

\* the initial cache handed to setup: every array blank, one extent
BlankState(c) == [name \in Names |-> Repeat(Blank, c)]

\* the entries the forward pass computes for the tokens total+1 .. total+n
NewEntries(total, n) == [i \in 1..n |-> total + i]

\* the output of the forward pass: the cached arrays, the entries of the
\* input_ids_len new tokens appended at the tail
EngineOutput(st, total, n) ==
    [name \in DOMAIN st |-> st[name] \o NewEntries(total, n)]

\* the record of the last call: its arguments (sid and freeze are those of
\* setup), the session's fields before it, the exception it raised ("no": it
\* returned) and the value it returned
NoCall == [op |-> "none", arg |-> 0, raw |-> None, sid |-> None,
           freeze |-> None, pre_state |-> None, pre_total |-> None,
           pre_id |-> None, pre_freeze |-> None, raised |-> "no",
           ret |-> None]

Called(op, arg, raw, raised) ==
    [op |-> op, arg |-> arg, raw |-> raw, sid |-> None, freeze |-> None,
     pre_state |-> state, pre_total |-> total_num_processed_tokens,
     pre_id |-> session_id, pre_freeze |-> freeze_first_position,
     raised |-> raised, ret |-> None]

\* the record of a call of setup
CalledSetup(sid, st, num_processed_tokens, freeze, raised) ==
    [Called("setup", num_processed_tokens, Some(st), raised)
        EXCEPT !.sid = Some(sid), !.freeze = Some(freeze)]

\* the record of a call that returned ret
Returned(op, arg, ret) == [Called(op, arg, None, "no") EXCEPT !.ret = Some(ret)]

\* ---- actions ----

Init ==
    /\ total_num_processed_tokens = None
    /\ use_deepsparse_cache \in BOOLEAN
    /\ session_id = None
    /\ freeze_first_position = None
    /\ state = None
    /\ kv_cache = None
    /\ call = NoCall
    /\ frame = None

\* mutant: a session that holds a cache keeps it and its counter
SetupArgsKeep(sid, st, num_processed_tokens, freeze) ==
    /\ frame = None
    /\ session_id' = Some(sid)
    /\ state' = IF state = None THEN Some(st) ELSE state
    /\ freeze_first_position' = Some(freeze)
    /\ total_num_processed_tokens' =
           IF state = None THEN Some(num_processed_tokens)
           ELSE total_num_processed_tokens
    /\ call' = CalledSetup(sid, st, num_processed_tokens, freeze, "no")
    /\ UNCHANGED <<use_deepsparse_cache, kv_cache, frame>>

\* setup(session_id, state, num_processed_tokens, freeze_first_position);
\* LIB.kv_cache either returns the native cache or raises
SetupArgs(sid, st, num_processed_tokens, freeze) ==
    /\ session_id' = Some(sid)
    /\ state' = Some(st)
    /\ freeze_first_position' = Some(freeze)
    /\ total_num_processed_tokens' = Some(num_processed_tokens)
    /\ frame = None
    /\ UNCHANGED <<use_deepsparse_cache, frame>>
    /\ \/ /\ ~use_deepsparse_cache
          /\ UNCHANGED kv_cache
          /\ call' = CalledSetup(sid, st, num_processed_tokens, freeze, "no")
       \/ /\ use_deepsparse_cache
          /\ kv_cache' = Some([prev_num_tokens |-> num_processed_tokens,
                               num_frozen_tokens |-> BoolToInt(freeze)])
          /\ call' = CalledSetup(sid, st, num_processed_tokens, freeze, "no")
       \/ /\ use_deepsparse_cache
          /\ UNCHANGED kv_cache
          /\ call' = CalledSetup(sid, st, num_processed_tokens, freeze,
                                  "LibError")

Setup ==
    \E sid \in SessionIds, c \in 1..MaxSetupCapacity, freeze \in BOOLEAN :
        SetupArgs(sid, BlankState(c), 0, freeze)

\* mutant: a counter that is None counts as 0, so update also runs on a
\* session that was never set up
UpdateArgsNoneAsZero(raw, input_ids_len) ==
    LET total == update_total(IF total_num_processed_tokens = None THEN 0
                              ELSE Val(total_num_processed_tokens),
                              input_ids_len)
    IN  /\ frame = None
        /\ total_num_processed_tokens' = Some(total)
        /\ state' = Some(update_state(raw, total, input_ids_len,
                                      freeze_first_position))
        /\ call' = Called("update", input_ids_len, Some(raw), "no")
        /\ UNCHANGED <<use_deepsparse_cache, session_id,
                       freeze_first_position, kv_cache, frame>>

\* update(state, input_ids_len) with raw state `raw`
UpdateArgs(raw, input_ids_len) ==
  /\ frame = None
  /\ IF total_num_processed_tokens = None
    THEN \* None += int raises TypeError
         /\ call' = Called("update", input_ids_len, Some(raw), "TypeError")
         /\ UNCHANGED <<total_num_processed_tokens, use_deepsparse_cache,
                        session_id, freeze_first_position, state, kv_cache,
                        frame>>
    ELSE LET total == update_total(Val(total_num_processed_tokens), input_ids_len)
         IN  /\ total_num_processed_tokens' = Some(total)
             /\ state' = Some(update_state(raw, total, input_ids_len,
                                           freeze_first_position))
             /\ call' = Called("update", input_ids_len, Some(raw), "no")
             /\ UNCHANGED <<use_deepsparse_cache, session_id,
                            freeze_first_position, kv_cache, frame>>

Update ==
    \E input_ids_len \in 1..MaxInputIds :
        IF state = None
        THEN UpdateArgs(BlankState(1), input_ids_len)
        ELSE /\ Val(total_num_processed_tokens) + input_ids_len <= MaxTokens
             /\ UpdateArgs(EngineOutput(Val(state),
                                        Val(total_num_processed_tokens),
                                        input_ids_len),
                           input_ids_len)

\* mutant: growing the window switches the freezing of the first position off
SetCapacityArgsUnfreeze(target) ==
    /\ frame = None
    /\ state # None
    /\ capacity_difference(capacity, target) <= 0
    /\ state' = Some(add_entries(Val(cached_inputs),
                                 -capacity_difference(capacity, target), 0))
    /\ freeze_first_position' = Some(FALSE)
    /\ call' = Called("set_capacity", target, None, "no")
    /\ UNCHANGED <<total_num_processed_tokens, use_deepsparse_cache,
                   session_id, kv_cache, frame>>

\* set_capacity(capacity)
SetCapacityArgs(target) ==
  /\ frame = None
  /\ IF state = None
    THEN \* self.capacity reads None.keys(): AttributeError
         /\ call' = Called("set_capacity", target, None, "AttributeError")
         /\ UNCHANGED <<total_num_processed_tokens, use_deepsparse_cache,
                        session_id, freeze_first_position, state, kv_cache,
                        frame>>
    ELSE LET diff == capacity_difference(capacity, target)
         IN  /\ IF diff > 0
                THEN /\ call' = Called("set_capacity", target, None,
                                        "NotImplementedError")
                     /\ UNCHANGED state
                ELSE /\ call' = Called("set_capacity", target, None, "no")
                     /\ IF diff < 0
                        THEN state' = Some(add_entries(Val(cached_inputs), -diff, 0))
                        ELSE UNCHANGED state
             /\ UNCHANGED <<total_num_processed_tokens, use_deepsparse_cache,
                            session_id, freeze_first_position, kv_cache,
                            frame>>

SetCapacity == \E target \in 0..MaxCapacity : SetCapacityArgs(target)

\* everything but the last call is left as it is
ReadOnly ==
    UNCHANGED <<total_num_processed_tokens, use_deepsparse_cache, session_id,
                freeze_first_position, state, kv_cache, frame>>

\* reading the id property
ReadId ==
    /\ frame = None
    /\ call' = [Called("id", 0, None, id_getter(session_id).raised)
                   EXCEPT !.ret = id_getter(session_id).ret]
    /\ ReadOnly

\* reading the capacity property
ReadCapacity ==
    /\ frame = None
    /\ call' = IF cached_inputs = None
               THEN \* None.keys(): AttributeError
                    Called("capacity", 0, None, "AttributeError")
               ELSE Returned("capacity", 0, capacity)
    /\ ReadOnly

\* reading the num_non_blank_entries property
ReadNumNonBlankEntries ==
    /\ frame = None
    /\ call' = IF cached_inputs = None
               THEN \* self.capacity raises AttributeError
                    Called("num_non_blank_entries", 0, None, "AttributeError")
               ELSE Returned("num_non_blank_entries", 0, num_non_blank_entries)
    /\ ReadOnly

\* PrepareGeneration.can_operate on a prompt of tokens_len tokens and this
\* session
CanOperate ==
    \E tokens_len \in 0..MaxPrompt :
        /\ frame = None
        /\ call' = Returned("can_operate", tokens_len,
                            can_operate(tokens_len, total_num_processed_tokens))
        /\ ReadOnly

Next ==
    \/ Setup
    \/ Update
    \/ SetCapacity
    \/ ReadId
    \/ ReadCapacity
    \/ ReadNumNonBlankEntries
    \/ CanOperate

Spec == Init /\ [][Next]_vars

\* the id setter
SetId ==
    \E sid \in SessionIds :
        /\ frame = None
        /\ session_id' = Some(sid)
        /\ call' = [Called("set_id", 0, None, "no") EXCEPT !.sid = Some(sid)]
        /\ UNCHANGED <<total_num_processed_tokens, use_deepsparse_cache,
                       freeze_first_position, state, kv_cache, frame>>

\* a caller that also rebinds the id
NextRebind == Next \/ SetId

SpecRebind == Init /\ [][NextRebind]_vars

\* update statement by statement, for a reader running beside the caller.
\* Line 105, then lines 107-123: the counter is advanced and the numbers of
\* entries to delete are computed; the caller's dict is what the loop mutates
UpdateBegin ==
    \E input_ids_len \in 1..MaxInputIds :
        /\ frame = None
        /\ state # None
        /\ Val(total_num_processed_tokens) + input_ids_len <= MaxTokens
        /\ LET raw == EngineOutput(Val(state), Val(total_num_processed_tokens),
                                   input_ids_len)
               total == update_total(Val(total_num_processed_tokens),
                                     input_ids_len)
           IN  /\ total_num_processed_tokens' = Some(total)
               /\ frame' = Some([
                      state |-> raw,
                      input_ids_len |-> input_ids_len,
                      num_padded_entries_to_delete |->
                          num_padded_entries_to_delete(raw, total, input_ids_len),
                      num_non_padded_entries_to_delete |->
                          num_non_padded_entries_to_delete(raw, total,
                                                           input_ids_len),
                      todo |-> <<"key", "value">>])
               /\ call' = Called("update", input_ids_len, Some(raw), "running")
        /\ UNCHANGED <<use_deepsparse_cache, session_id, freeze_first_position,
                       state, kv_cache>>

\* lines 125-134: one turn of the loop, state[name] is replaced
UpdateTrim ==
    /\ frame # None
    /\ Val(frame).todo # <<>>
    /\ LET f == Val(frame)
           name == Head(f.todo)
       IN  frame' = Some([f EXCEPT
               !.state = [f.state EXCEPT ![name] =
                   trim_array(f.state[name], f.num_padded_entries_to_delete,
                              f.num_non_padded_entries_to_delete,
                              f.input_ids_len, freeze_first_position)],
               !.todo = Tail(f.todo)])
    /\ UNCHANGED <<total_num_processed_tokens, use_deepsparse_cache, session_id,
                   freeze_first_position, state, kv_cache, call>>

\* line 136: self._state = state, and update returns
UpdateCommit ==
    /\ frame # None
    /\ Val(frame).todo = <<>>
    /\ state' = Some(Val(frame).state)
    /\ frame' = None
    /\ call' = [call EXCEPT !.raised = "no"]
    /\ UNCHANGED <<total_num_processed_tokens, use_deepsparse_cache, session_id,
                   freeze_first_position, kv_cache>>

\* the caller is interrupted between two statements of update
\* (KeyboardInterrupt): update is left where it was
UpdateCancel ==
    /\ frame # None
    /\ frame' = None
    /\ call' = [call EXCEPT !.raised = "KeyboardInterrupt"]
    /\ UNCHANGED <<total_num_processed_tokens, use_deepsparse_cache, session_id,
                   freeze_first_position, state, kv_cache>>

NextSteps ==
    \/ Setup
    \/ UpdateBegin
    \/ UpdateTrim
    \/ UpdateCommit
    \/ UpdateCancel
    \/ SetCapacity

SpecSteps == Init /\ [][NextSteps]_vars

\* setup followed by update calls alone
NextUpdates == Setup \/ Update

SpecUpdates == Init /\ [][NextUpdates]_vars

\* a caller that hands update malformed states: the output of the forward
\* pass with the last entry of one array missing
DropLast(raw, name) ==
    [m \in DOMAIN raw |->
        IF m = name THEN SliceTo(raw[m], Len(raw[m]) - 1) ELSE raw[m]]

UpdateMalformed ==
    \E input_ids_len \in 1..MaxInputIds, name \in Names :
        /\ state # None
        /\ Val(total_num_processed_tokens) + input_ids_len <= MaxTokens
        /\ UpdateArgs(DropLast(EngineOutput(Val(state),
                                            Val(total_num_processed_tokens),
                                            input_ids_len), name),
                      input_ids_len)

NextMalformed == Setup \/ UpdateMalformed

SpecMalformed == Init /\ [][NextMalformed]_vars

\* ---- properties ----

Extent(st, name) == Len(Val(st)[name])

\* the last call was an update that returned
UpdateDone == call.op = "update" /\ call.raised = "no"

\* the last call was a set_capacity on a configured session
SetCapacityCalled == call.op = "set_capacity" /\ call.pre_state # None

\* the capacity property as it read before the last call
PreCapacity == Extent(call.pre_state, FirstKey)

\* padded_entries of the last update: extent of new_state minus the counter
\* after the increment, at least 0
PaddedEntries ==
    Max(0, Extent(call.raw, FirstKey) - Val(total_num_processed_tokens))

\* C1 (window conservation): after every update the sequence-axis extent of
\* every cached tensor equals the capacity the session had before the call.
C1_WindowConservation ==
    UpdateDone => \A name \in Names : Extent(state, name) = PreCapacity

\* C2 (padding before eviction): every update removes min(padded_entries,
\* input_token_count) blank entries and exactly max(0, input_token_count -
\* padded_entries) real entries from every tensor.
C2_PaddingBeforeEviction ==
    UpdateDone =>
        \A name \in Names :
            /\ NumBlank(Val(call.raw)[name]) - NumBlank(Val(state)[name])
                  = Min(PaddedEntries, call.arg)
            /\ NumReal(Val(call.raw)[name]) - NumReal(Val(state)[name])
                  = Max(0, call.arg - PaddedEntries)

\* C3 (BOS retention): with freeze_first_position true, once sequence index 0
\* of the cached tensors holds real data, an update leaves the value at
\* sequence index 0 of every tensor as it was.
C3_BosRetention ==
    [][(/\ call'.op = "update" /\ call'.raised = "no"
        /\ Truthy(freeze_first_position)
        /\ state # None
        /\ \A name \in Names :
              Extent(state, name) >= 1 /\ Val(state)[name][1] # Blank)
       => \A name \in Names :
              /\ Extent(state', name) >= 1
              /\ Val(state')[name][1] = Val(state)[name][1]]_vars

\* an update with freeze_first_position evicted real entries and kept token 1
C3_Witness ==
    /\ UpdateDone
    /\ Truthy(freeze_first_position)
    /\ call.pre_state # None
    /\ \A name \in Names :
          /\ Extent(call.pre_state, name) >= 2
          /\ Val(call.pre_state)[name][1] = 1
          /\ NumReal(Val(call.raw)[name]) > NumReal(Val(state)[name])
          /\ Val(state)[name][1] = 1
          /\ Val(state)[name][2] > 2

\* C4 (non-blank count): after every update of a sequence of update calls the
\* number of real entries each cached tensor holds equals
\* num_non_blank_entries = min(capacity, total_processed_tokens).
C4_NonBlankCount ==
    UpdateDone =>
        \A name \in Names : NumReal(Val(state)[name]) = num_non_blank_entries

\* an update left blank entries beside real ones
C4_Witness ==
    /\ UpdateDone
    /\ \A name \in Names :
          /\ NumBlank(Val(state)[name]) >= 1
          /\ NumReal(Val(state)[name]) >= 2

\* C5 (monotonic accounting): every update increases
\* total_processed_tokens by exactly input_token_count.
C5_MonotonicAccounting ==
    UpdateDone =>
        Val(total_num_processed_tokens) = Val(call.pre_total) + call.arg

\* an update of several tokens removed blank and real entries
C5_Witness ==
    /\ UpdateDone
    /\ call.arg >= 2
    /\ NumBlank(Val(call.raw)[FirstKey]) > NumBlank(Val(state)[FirstKey])
    /\ NumReal(Val(call.raw)[FirstKey]) > NumReal(Val(state)[FirstKey])

\* new_state is malformed: its tensors differ in extent, or an extent is not
\* the capacity
Malformed(raw, cap) ==
    \/ \E a, b \in DOMAIN raw : Len(raw[a]) # Len(raw[b])
    \/ \E a \in DOMAIN raw : Len(raw[a]) # cap

\* C6 (malformed update is all-or-nothing): an update whose new_state is
\* malformed is rejected, and the counter and every cached tensor are as
\* before the call.
C6_MalformedRejected ==
    (/\ call.op = "update"
     /\ call.pre_state # None
     /\ Malformed(Val(call.raw), PreCapacity))
    => /\ call.raised # "no"
       /\ state = call.pre_state
       /\ total_num_processed_tokens = call.pre_total

\* C7 (capacity growth): set_capacity(target) with target > capacity gives
\* every tensor target - capacity zero entries at the front, then its
\* previous entries in order; capacity reads target and the counter is kept.
C7_CapacityGrowth ==
    (SetCapacityCalled /\ call.arg > PreCapacity)
    => /\ call.raised = "no"
       /\ \A name \in Names :
             Val(state)[name] =
                 Repeat(0, call.arg - PreCapacity) \o Val(call.pre_state)[name]
       /\ capacity = call.arg
       /\ total_num_processed_tokens = call.pre_total

\* a window holding real entries has grown
C7_Witness ==
    /\ SetCapacityCalled
    /\ call.arg >= PreCapacity + 2
    /\ NumReal(Val(call.pre_state)[FirstKey]) >= 2
    /\ capacity = call.arg

\* C8 (shrink rejection): set_capacity(target) with target < capacity fails
\* with NotImplementedError and leaves every cached tensor, the capacity and
\* the counter unchanged.
C8_ShrinkRejection ==
    (SetCapacityCalled /\ call.arg < PreCapacity)
    => /\ call.raised = "NotImplementedError"
       /\ state = call.pre_state
       /\ capacity = PreCapacity
       /\ total_num_processed_tokens = call.pre_total

\* a shrink of a window holding real entries was rejected
C8_Witness ==
    /\ SetCapacityCalled
    /\ call.arg < PreCapacity
    /\ call.raised = "NotImplementedError"
    /\ NumReal(Val(state)[FirstKey]) >= 1

\* C9 (uniform tensors): after any sequence of update and set_capacity calls
\* every named tensor has the same sequence-axis extent.
C9_UniformTensors ==
    state # None =>
        \A a, b \in Names : Extent(state, a) = Extent(state, b)

\* a grown window was updated past its capacity
C9_Witness ==
    /\ UpdateDone
    /\ call.pre_state # None
    /\ PreCapacity > MaxSetupCapacity
    /\ Val(total_num_processed_tokens) > capacity
    /\ \A a, b \in Names : Extent(state, a) = Extent(state, b)

\* C10 (first position after any interleaving): with freeze_first_position
\* true, after update and set_capacity calls, whenever the cache holds a real
\* entry and no blank entry is expected (total_processed_tokens >= capacity),
\* sequence index 0 of every tensor holds the first processed token.
C10_FirstTokenKept ==
    (/\ Truthy(freeze_first_position)
     /\ state # None
     /\ call.op \in {"update", "set_capacity"}
     /\ Val(total_num_processed_tokens) >= capacity
     /\ \E name \in Names : NumReal(Val(state)[name]) >= 1)
    => \A name \in Names :
           Extent(state, name) >= 1 /\ Val(state)[name][1] = 1

\* the session is unconfigured: id null, no tensors, counter null
Unconfigured ==
    session_id = None /\ state = None /\ total_num_processed_tokens = None

\* C11 (id before and after setup): reading id while no id is set raises
\* ValueError and returns nothing; reading id right after setup(session_id,
\* ...) returns that session_id.
C11_IdAccess ==
    [][call'.op = "id" =>
          /\ session_id = None =>
                 call'.raised = "ValueError" /\ call'.ret = None
          /\ call.op = "setup" =>
                 call'.raised = "no" /\ call'.ret = call.sid]_vars

\* id was read and returned on a session set up under the native cache
C11_Witness ==
    /\ call.op = "id"
    /\ call.raised = "no"
    /\ call.ret = Some("s2")
    /\ NumReal(Val(state)[FirstKey]) = 0
    /\ use_deepsparse_cache

\* the fields of the session equal the arguments of the setup recorded in c
SetupBound(c) ==
    /\ session_id = c.sid
    /\ state = c.raw
    /\ total_num_processed_tokens = Some(c.arg)
    /\ freeze_first_position = c.freeze

\* C12 (re-setup replaces the state): after setup returns, id, cached
\* tensors, counter and freeze policy equal its arguments whatever came
\* before; a second setup with the same arguments leaves them as the first
\* did.
C12_SetupReplaces ==
    [][(call'.op = "setup" /\ call'.raised = "no") =>
          /\ session_id' = call'.sid
          /\ state' = call'.raw
          /\ total_num_processed_tokens' = Some(call'.arg)
          /\ freeze_first_position' = call'.freeze
          /\ (/\ call.op = "setup" /\ call.raised = "no"
              /\ call.sid = call'.sid /\ call.raw = call'.raw
              /\ call.arg = call'.arg /\ call.freeze = call'.freeze)
             => /\ session_id' = session_id
                /\ state' = state
                /\ total_num_processed_tokens' = total_num_processed_tokens
                /\ freeze_first_position' = freeze_first_position]_vars

\* setup replaced a cache that held real entries, another id and policy
C12_Witness ==
    /\ call.op = "setup"
    /\ call.raised = "no"
    /\ call.pre_state # None
    /\ NumReal(Val(call.pre_state)[FirstKey]) >= 2
    /\ call.pre_id # call.sid
    /\ call.pre_freeze # call.freeze
    /\ SetupBound(call)

\* C13 (failed acquisition leaves nothing): when setup fails in acquiring
\* the native cache, id, cached tensors, counter and freeze policy are as
\* they were before the call.
C13_FailedSetupNoPartialState ==
    (call.op = "setup" /\ call.raised # "no")
    => /\ session_id = call.pre_id
       /\ state = call.pre_state
       /\ total_num_processed_tokens = call.pre_total
       /\ freeze_first_position = call.pre_freeze

\* C14 (update is atomic to observers): while and after an update runs, a
\* reader sees the counter and the cached tensors either both as before the
\* call or both as after it.
C14_UpdateAtomic ==
    (call.op = "update" /\ call.pre_total # None)
    => \/ /\ total_num_processed_tokens = call.pre_total
          /\ state = call.pre_state
       \/ /\ total_num_processed_tokens
                 = Some(Val(call.pre_total) + call.arg)
          /\ state = Some(update_state(Val(call.raw),
                                       Val(call.pre_total) + call.arg,
                                       call.arg, freeze_first_position))

\* C15 (two-phase lifecycle): on an unconfigured session update,
\* set_capacity, capacity and num_non_blank_entries fail and leave the
\* session unconfigured; only setup gives the session tensors and a counter.
C15_TwoPhase ==
    [][/\ (/\ Unconfigured
           /\ call'.op \in {"update", "set_capacity", "capacity",
                             "num_non_blank_entries"})
          => (call'.raised # "no" /\ Unconfigured')
       /\ (state = None /\ state' # None) => call'.op = "setup"
       /\ (total_num_processed_tokens = None
             /\ total_num_processed_tokens' # None) => call'.op = "setup"]_vars

\* update was refused on an unconfigured session
C15_Witness ==
    /\ Unconfigured
    /\ call.op = "update"
    /\ call.raised = "TypeError"

\* the number of real entries the last update had to evict
ToEvict == Max(0, call.arg - PaddedEntries)

\* C16 (oldest-first eviction): when an update evicts k > 0 real entries
\* from a raw state without blank entries, each tensor is the raw tensor
\* without its k lowest-index entries (freeze false), or raw index 0
\* followed by the raw entries from index k+1 on (freeze true).
C16_OldestFirst ==
    (/\ UpdateDone
     /\ ToEvict > 0
     /\ \A name \in Names : NumBlank(Val(call.raw)[name]) = 0)
    => \A name \in Names :
          LET raw == Val(call.raw)[name]
              new == Val(state)[name]
          IN  /\ Len(new) = Len(raw) - ToEvict
              /\ IF Truthy(freeze_first_position)
                 THEN /\ new[1] = raw[1]
                      /\ \A i \in 2..Len(new) : new[i] = raw[i + ToEvict]
                 ELSE \A i \in 1..Len(new) : new[i] = raw[i + ToEvict]

\* two entries were evicted behind a frozen first position
C16_Witness ==
    /\ UpdateDone
    /\ ToEvict = 2
    /\ Truthy(freeze_first_position)
    /\ \A name \in Names :
          /\ NumBlank(Val(call.raw)[name]) = 0
          /\ Len(Val(state)[name]) >= 3

\* the blank entries of a cache array are a prefix of it
BlankPrefix(cache_array) ==
    \A i, j \in 1..Len(cache_array) :
        (i < j /\ cache_array[j] = Blank) => cache_array[i] = Blank

\* C17 (blank prefix and count under any interleaving): after update and
\* set_capacity calls the blank entries of every tensor are a prefix and the
\* number of real entries equals min(capacity, total_processed_tokens).
C17_BlankPrefixAndCount ==
    (state # None /\ call.op \in {"update", "set_capacity"})
    => \A name \in Names :
          /\ BlankPrefix(Val(state)[name])
          /\ NumReal(Val(state)[name]) = num_non_blank_entries

\* C18 (newest data is never evicted): when update is handed the cached
\* tensors with input_token_count new entries appended and
\* input_token_count <= capacity, the last input_token_count entries of
\* every tensor are those new entries.
C18_NewestKept ==
    (UpdateDone /\ call.arg <= PreCapacity)
    => \A name \in Names :
          LET new == Val(state)[name]
          IN  /\ Len(new) >= call.arg
              /\ SubSeq(new, Len(new) - call.arg + 1, Len(new))
                    = NewEntries(Val(call.pre_total), call.arg)

\* C19 (identity and policy are fixed by setup): update and set_capacity,
\* returning or raising, leave session_id and freeze_first_position as they
\* are; session_id changes only in setup or the id setter, and
\* freeze_first_position only in setup.
C19_IdentityFixed ==
    [][/\ call'.op \in {"update", "set_capacity"}
          => /\ session_id' = session_id
             /\ freeze_first_position' = freeze_first_position
       /\ session_id' # session_id => call'.op \in {"setup", "set_id"}
       /\ freeze_first_position' # freeze_first_position
          => call'.op = "setup"]_vars

\* a frozen window was grown after its id had been rebound
C19_Witness ==
    /\ call.op = "set_capacity"
    /\ call.raised = "no"
    /\ call.arg > PreCapacity
    /\ session_id = Some("s2")
    /\ kv_cache = Some([prev_num_tokens |-> 0, num_frozen_tokens |-> 1])
    /\ Truthy(freeze_first_position)
    /\ Val(total_num_processed_tokens) >= 1

\* C20 (generation starts when the prompt is accounted for): can_operate
\* returns true exactly when the number of prompt tokens equals
\* total_processed_tokens, and false once the counter has passed it.
C20_CanOperate ==
    call.op = "can_operate"
    => /\ call.ret = Some(TRUE)
          <=> (/\ total_num_processed_tokens # None
               /\ Val(total_num_processed_tokens) = call.arg)
       /\ (/\ total_num_processed_tokens # None
           /\ Val(total_num_processed_tokens) > call.arg)
          => call.ret = Some(FALSE)

\* generation started after updates had accounted for a prompt of 3 tokens
C20_Witness ==
    /\ call.op = "can_operate"
    /\ call.arg = 3
    /\ call.ret = Some(TRUE)
    /\ NumReal(Val(state)[FirstKey]) >= 1

====
